---- MODULE Spec2Model ----
(***************************************************************************)
(* State-machine model of src/handler.py: the RunPod handler that turns a  *)
(* job into a ComfyUI workflow graph, submits it, polls the history        *)
(* endpoint and reads the produced video back.                             *)
(*                                                                         *)
(* Conventions for Python values:                                          *)
(*   - a dict is a function whose DOMAIN is the set of keys present;       *)
(*   - None is the empty tuple <<>>, and a value that may be None is       *)
(*     carried as <<v>> (Some(v));                                         *)
(*   - floats with one decimal are integers in tenths (4.0 is 40);         *)
(*   - wall-clock time is whole seconds; each loop keeps the elapsed time  *)
(*     since its own start_time, as the code does;                         *)
(*   - the value of an elapsed_time entry of a result is not modelled      *)
(*     (it is the token "t"), only its presence.                           *)
(***************************************************************************)
EXTENDS Integers, Sequences, FiniteSets, TLC

VARIABLES
    pc,            \* position of handler(): idle, probe, save, load, submit, poll, resolve, done
                   \* (bind, bound: before and after a binder called on its own)
    job,           \* the job mapping handed to handler()
    params,        \* handler's params dict (seed is None or Some(int))
    mode,          \* handler's mode string
    elapsed,       \* time.time() - start_time of the loop currently running
    last_progress, \* wait_for_completion's last_progress
    audio_duration,\* handler's audio_duration: None or Some(tenths of a second)
    loaded_from,   \* path load_workflow opened, None before
    workflow,      \* handler's workflow dict: node id -> [inputs |-> field -> value]
    prompt_id,     \* handler's prompt_id: None before/without a handle, Some(id)
    outputs,       \* the outputs returned by wait_for_completion
    outfiles,      \* the files under /comfyui/output when get_output_video runs
    video,         \* get_output_video's return value: None or Some(file)
    result,        \* the mapping handler() returned
    outcome,       \* running, returned (a mapping), raised (exception left handler)
    requests,      \* ghost: the distinct requests sent to the engine so far
    posts,         \* ghost: number of POST /prompt requests sent
    posted,        \* ghost: body of the last POST /prompt request, None before
    progress_log,  \* ghost: the "Progress: Ns elapsed" values logged
    poll_end,      \* ghost: how wait_for_completion ended (none, outputs, error, timeout)
    ready,         \* ghost: what wait_for_comfyui() returned, None before
    error_reported,\* ghost: a history response gave status_str "error" for the handle
    calls,         \* ghost: the functions handler() has called, in call order
    template_seen, \* ghost: None before load_workflow ran, then Some([name, named, fallback]):
                   \*        its workflow_name, and whether /workflow_<name>.json and
                   \*        /workflow.json existed
    outputs_seen,  \* ghost: None, or Some([outputs, error]) of the last history response
                   \*        holding non-empty outputs for the handle (error: it also
                   \*        carried status_str "error")
    ticks_seen     \* ghost: [transient, answered] - how many history queries failed in
                   \*        transport or gave a body that is not JSON; whether one gave a
                   \*        JSON body

vars == <<pc, job, params, mode, elapsed, last_progress, audio_duration, loaded_from,
          workflow, prompt_id, outputs, outfiles, video, result, outcome,
          requests, posts, posted, progress_log, poll_end, ready, error_reported,
          calls, template_seen, outputs_seen, ticks_seen>>

----------------------------------------------------------------------------
(* Python value helpers *)

None == <<>>
Some(v) == <<v>>
Opt(S) == {None} \cup {Some(v) : v \in S}
EmptyDict == [k \in {} |-> 0]

\* dict.get(key, default)
Get(d, k, default) == IF k \in DOMAIN d THEN d[k] ELSE default

\* d[key] = value
Put(d, k, v) == [x \in (DOMAIN d) \cup {k} |-> IF x = k THEN v ELSE d[x]]

\* a record of optional values -> the dict holding the keys that are present
MkDict(r) == [k \in {f \in DOMAIN r : r[f] # None} |-> r[k][1]]

\* int(x) for x = n / 10: truncation toward zero
IntOfTenths(n) == IF n >= 0 THEN n \div 10 ELSE -((-n) \div 10)

----------------------------------------------------------------------------
(* Bounds of the explored inputs *)

MaxSeed == 1          \* explicit and generated seeds range over 0..MaxSeed
MaxTimeout == 2       \* the job's timeout ranges over 0..MaxTimeout seconds
MaxNodes == 2         \* nodes in an outputs mapping handed to get_output_video
MaxAbsent == 2        \* target nodes a template handed to a binder holds, or lacks
MaxPollTimeout == 21  \* the longest timeout handed to wait_for_completion on its own

----------------------------------------------------------------------------
(* Program constants *)

COMFYUI_READY_TIMEOUT == 120
READY_SLEEP == 2
READY_URLOPEN_TIMEOUT == 5
POLL_SLEEP == 1
PROGRESS_EVERY == 10
RANDOM_SEED_MAX == 2147483647
FALLBACK_AUDIO_DURATION == 40

DEFAULT_NEGATIVE_PROMPT == "static, frozen, ..."

DEFAULT_PARAMS ==
    [width |-> 720, height |-> 720, frame_count |-> 97, steps |-> 20, cfg |-> 40,
     fps |-> 25, seed |-> None, timeout |-> 600, img_compression |-> 33,
     i2v_strength_first |-> 10, i2v_strength_second |-> 10]

----------------------------------------------------------------------------
(* The jobs explored *)

SeedInputs == {-1} \cup (0 .. MaxSeed)

\* every job carries a timeout; the options not listed (fps, width, height, steps, ...)
\* are never supplied and take their defaults
JobInputs ==
    { MkDict(r) : r \in [image       : Opt({"aW1hZ2U="}),
                         prompt      : Opt({"a cat"}),
                         audio       : Opt({"", "YXVkaW8="}),
                         seed        : Opt(SeedInputs),
                         frame_count : Opt({50}),
                         timeout     : {Some(t) : t \in 0 .. MaxTimeout}] }

Jobs == {EmptyDict} \cup { [k \in {"input"} |-> ji] : ji \in JobInputs }

\* job.get("input", {})
JobInput(j) == Get(j, "input", EmptyDict)

----------------------------------------------------------------------------
(* handler(): the try block's returns and its except clause *)

\* an exception object: its class and str(e)
Exc(kind, msg) == [kind |-> kind, msg |-> msg]

\* return <mapping> from handler
Return(r) ==
    /\ pc' = "done"
    /\ result' = r
    /\ outcome' = "returned"

\* variant: the except clause is narrowed to RuntimeError, anything else leaves handler
HandlerExceptRuntimeOnly(e) ==
    IF e.kind = "RuntimeError"
    THEN Return([error |-> e.msg, traceback |-> e.kind, elapsed_time |-> "t"])
    ELSE pc' = "done" /\ result' = EmptyDict /\ outcome' = "raised"

\* except Exception as e: return {"error": str(e), "traceback": ..., "elapsed_time": elapsed}
HandlerExcept(e) ==
    Return([error |-> e.msg, traceback |-> e.kind, elapsed_time |-> "t"])

\* has_custom_audio = "audio" in job_input and job_input["audio"]
HasCustomAudio(job_input) == "audio" \in DOMAIN job_input /\ job_input["audio"] # ""

\* variant: the mode follows the presence of the audio key alone
ModeOfAudioKey(job_input) ==
    IF "audio" \in DOMAIN job_input THEN "custom_audio" ELSE "generated_audio"

\* mode = "custom_audio" if has_custom_audio else "generated_audio"
ModeOf(job_input) == IF HasCustomAudio(job_input) THEN "custom_audio" ELSE "generated_audio"

\* params = {...}: every option read with job_input.get(name, DEFAULT_PARAMS[name])
BuildParams(job_input) ==
    [image               |-> job_input["image"],
     prompt              |-> job_input["prompt"],
     negative_prompt     |-> Get(job_input, "negative_prompt", DEFAULT_NEGATIVE_PROMPT),
     width               |-> Get(job_input, "width", DEFAULT_PARAMS.width),
     height              |-> Get(job_input, "height", DEFAULT_PARAMS.height),
     frame_count         |-> Get(job_input, "frame_count", DEFAULT_PARAMS.frame_count),
     steps               |-> Get(job_input, "steps", DEFAULT_PARAMS.steps),
     cfg                 |-> Get(job_input, "cfg", DEFAULT_PARAMS.cfg),
     fps                 |-> Get(job_input, "fps", DEFAULT_PARAMS.fps),
     seed                |-> IF "seed" \in DOMAIN job_input
                             THEN Some(job_input["seed"]) ELSE DEFAULT_PARAMS.seed,
     timeout             |-> Get(job_input, "timeout", DEFAULT_PARAMS.timeout),
     img_compression     |-> Get(job_input, "img_compression", DEFAULT_PARAMS.img_compression),
     i2v_strength_first  |-> Get(job_input, "i2v_strength_first", DEFAULT_PARAMS.i2v_strength_first),
     i2v_strength_second |-> Get(job_input, "i2v_strength_second", DEFAULT_PARAMS.i2v_strength_second)]

\* variant: the required-field checks are skipped for the image
ValidateNoImageCheck(job_input) ==
    IF "prompt" \notin DOMAIN job_input THEN Some("Missing required field: prompt")
    ELSE None

\* lines 371-374: None when the job is accepted, else Some(error message)
Validate(job_input) ==
    IF "image" \notin DOMAIN job_input THEN Some("Missing required field: image")
    ELSE IF "prompt" \notin DOMAIN job_input THEN Some("Missing required field: prompt")
    ELSE None

\* handler() from its entry to the call of wait_for_comfyui()
handler_start ==
    /\ pc = "idle"
    /\ \E j \in Jobs :
        LET job_input == JobInput(j)
            bad == Validate(job_input)
        IN  /\ job' = j
            /\ IF bad # None
               THEN /\ Return([error |-> bad[1]])
                    /\ UNCHANGED <<params, mode>>
               ELSE IF "image" \notin DOMAIN job_input
               THEN \* params["image"] = job_input["image"] raises KeyError
                    /\ HandlerExcept(Exc("KeyError", "'image'"))
                    /\ UNCHANGED <<params, mode>>
               ELSE /\ params' = BuildParams(job_input)
                    /\ mode' = ModeOf(job_input)
                    /\ pc' = "probe"
                    /\ UNCHANGED <<result, outcome>>
            /\ calls' = IF pc' = "probe" THEN Append(calls, "wait_for_comfyui") ELSE calls
    /\ UNCHANGED <<elapsed, last_progress, audio_duration, loaded_from, workflow, prompt_id,
                   outputs, outfiles, video, requests, posts, posted, progress_log, poll_end,
                   ready, error_reported, template_seen, outputs_seen, ticks_seen>>

----------------------------------------------------------------------------
(* wait_for_comfyui(): the readiness probe loop *)

\* what one GET /system_stats can do, and how long the call takes
ProbeResponses == {"200", "204", "refused", "timed out"}
ProbeLatency(resp) == IF resp = "timed out" THEN READY_URLOPEN_TIMEOUT ELSE 0

\* a request as the engine sees it; arg is the handle of a history query
Request(method, path, arg) == [method |-> method, path |-> path, arg |-> arg]
GetSystemStats == Request("GET", "/system_stats", None)
PostPrompt == Request("POST", "/prompt", None)

\* variant: the history of every job is requested, not that of the handle
GetHistoryOfAll(pid) == Request("GET", "/history", None)

\* urlopen(f"{COMFYUI_URL}/history/{prompt_id}")
GetHistory(pid) == Request("GET", "/history", pid)

\* variant: the probe's verdict is ignored and the run goes on
ReadinessVerdictIgnored(is_ready) ==
    /\ pc' = "save"
    /\ UNCHANGED <<result, outcome>>

\* if not wait_for_comfyui(): return {"error": "ComfyUI server not available"}
ReadinessVerdict(is_ready) ==
    IF is_ready
    THEN /\ pc' = "save"
         /\ UNCHANGED <<result, outcome>>
    ELSE Return([error |-> "ComfyUI server not available"])

\* one iteration of the while loop: probe, then return True or sleep
wait_for_comfyui_probe ==
    /\ pc = "probe"
    /\ elapsed < COMFYUI_READY_TIMEOUT
    /\ requests' = requests \cup {GetSystemStats}
    /\ \E resp \in ProbeResponses :
        IF resp = "200"
        THEN /\ ReadinessVerdict(TRUE)
             /\ ready' = Some(TRUE)
             /\ elapsed' = 0
        ELSE /\ elapsed' = elapsed + ProbeLatency(resp) + READY_SLEEP
             /\ UNCHANGED <<pc, result, outcome, ready>>
    /\ UNCHANGED <<job, params, mode, last_progress, audio_duration, loaded_from, workflow,
                   prompt_id, outputs, outfiles, video, posts, posted, progress_log, poll_end,
                   error_reported, calls, template_seen, outputs_seen, ticks_seen>>

\* the loop condition fails: return False
wait_for_comfyui_give_up ==
    /\ pc = "probe"
    /\ ~(elapsed < COMFYUI_READY_TIMEOUT)
    /\ ReadinessVerdict(FALSE)
    /\ ready' = Some(FALSE)
    /\ elapsed' = 0
    /\ UNCHANGED <<job, params, mode, last_progress, audio_duration, loaded_from, workflow,
                   prompt_id, outputs, outfiles, video, requests, posts, posted,
                   progress_log, poll_end, error_reported, calls, template_seen,
                   outputs_seen, ticks_seen>>

----------------------------------------------------------------------------
(* save_input_image(), save_input_audio() *)

\* durations ffprobe can report for the saved audio, in tenths of a second;
\* 4.0 is also what save_input_audio returns when ffprobe fails
AudioDurations == {0, 25, FALLBACK_AUDIO_DURATION}

\* handler() lines 406-410: save the image, then in custom-audio mode the audio
handler_save_inputs ==
    /\ pc = "save"
    /\ \E image_saved \in BOOLEAN, audio_saved \in BOOLEAN, d \in AudioDurations :
        /\ IF ~image_saved
           THEN /\ HandlerExcept(Exc("Error", "Incorrect padding"))
                /\ UNCHANGED audio_duration
           ELSE IF ~HasCustomAudio(JobInput(job))
           THEN /\ pc' = "load"
                /\ UNCHANGED <<audio_duration, result, outcome>>
           ELSE IF ~audio_saved
           THEN /\ HandlerExcept(Exc("Error", "Incorrect padding"))
                /\ UNCHANGED audio_duration
           ELSE /\ audio_duration' = Some(d)
                /\ pc' = "load"
                /\ UNCHANGED <<result, outcome>>
        /\ calls' = IF image_saved /\ HasCustomAudio(JobInput(job))
                    THEN calls \o <<"save_input_image", "save_input_audio">>
                    ELSE Append(calls, "save_input_image")
    /\ UNCHANGED <<job, params, mode, elapsed, last_progress, loaded_from, workflow, prompt_id,
                   outputs, outfiles, video, requests, posts, posted, progress_log, poll_end,
                   ready, error_reported, template_seen, outputs_seen, ticks_seen>>

----------------------------------------------------------------------------
(* Workflow graphs and load_workflow() *)

\* the node ids the two binders write, with the field each one carries
TargetField ==
    [n \in {"98", "92:3", "92:4", "92:11", "92:67", "92:62", "92:9", "92:47", "92:22",
            "92:51", "92:97", "92:99", "92:107", "92:108", "92:114", "92:115"} |->
        CASE n = "98" -> "image"
          [] n \in {"92:3", "92:4"} -> "text"
          [] n \in {"92:11", "92:67"} -> "noise_seed"
          [] n \in {"92:62", "92:115"} -> "value"
          [] n = "92:9" -> "steps"
          [] n = "92:47" -> "cfg"
          [] n \in {"92:22", "92:51"} -> "frame_rate"
          [] n = "92:97" -> "fps"
          [] n = "92:99" -> "img_compression"
          [] n \in {"92:107", "92:108"} -> "strength"
          [] n = "92:114" -> "audio"]

TargetNodes == DOMAIN TargetField

\* the value a template file holds in a field before binding
TemplateValue(field) == IF field \in {"image", "text", "audio"} THEN "<template>" ELSE -5

\* a template graph with the given node ids
TemplateGraph(nodes) ==
    [n \in nodes |-> [inputs |-> [f \in {TargetField[n]} |-> TemplateValue(f)]]]

\* the node sets of the template files explored
TemplateNodeSets == {TargetNodes, TargetNodes \ {"92:67"}, {}}

\* a file on disk: absent, present but not JSON, or a workflow graph
MissingFile == [exists |-> FALSE, json |-> None]
MalformedFile == [exists |-> TRUE, json |-> None]
WorkflowFiles == {[exists |-> TRUE, json |-> Some(TemplateGraph(ns))] : ns \in TemplateNodeSets}
TemplateFiles == {MissingFile, MalformedFile} \cup WorkflowFiles

TemplatePaths == {"/workflow_generated_audio.json", "/workflow_custom_audio.json",
                  "/workflow.json"}
TemplateStores == [TemplatePaths -> TemplateFiles]

WorkflowPathOf(workflow_name) ==
    IF workflow_name = "custom_audio" THEN "/workflow_custom_audio.json"
    ELSE "/workflow_generated_audio.json"

\* variant: no fallback, the named template is opened whether it exists or not
load_workflow_path_named_only(workflow_name, store) == WorkflowPathOf(workflow_name)

\* the path load_workflow opens: the named template, else /workflow.json
load_workflow_path(workflow_name, store) ==
    IF store[WorkflowPathOf(workflow_name)].exists
    THEN WorkflowPathOf(workflow_name)
    ELSE "/workflow.json"

\* load_workflow(): [raised, value]; open() or json.load() raising is re-raised
load_workflow(workflow_name, store) ==
    LET file == store[load_workflow_path(workflow_name, store)]
    IN  IF ~file.exists THEN [raised |-> TRUE, exc |-> Exc("FileNotFoundError", "No such file"),
                              value |-> EmptyDict]
        ELSE IF file.json = None THEN [raised |-> TRUE, exc |-> Exc("JSONDecodeError", "Expecting value"),
                                       value |-> EmptyDict]
        ELSE [raised |-> FALSE, exc |-> Exc("", ""), value |-> file.json[1]]

----------------------------------------------------------------------------
(* modify_workflow_generated_audio(), modify_workflow_custom_audio() *)

\* what random.randint(0, 2**31 - 1) can return, within the bound
RandomSeeds == (0 .. MaxSeed) \cup {RANDOM_SEED_MAX}

\* variant: the seed test is "if not seed", which also replaces an explicit 0
resolve_seed_falsy(p, rnd) ==
    IF p.seed = None \/ p.seed = Some(-1) \/ p.seed = Some(0) THEN rnd ELSE p.seed[1]

\* lines 197-201 / 234-238: the binder's local seed
resolve_seed(p, rnd) ==
    IF p.seed = None \/ p.seed = Some(-1) THEN rnd ELSE p.seed[1]

\* params after the binder ran: params["seed"] = seed when one was generated
params_after_seed(p, rnd) ==
    IF p.seed = None \/ p.seed = Some(-1) THEN [p EXCEPT !.seed = Some(rnd)] ELSE p

\* variant: the write is not guarded by "if node_id in workflow"
SetInputUnguarded(wf, node_id, field, value) ==
    [n \in (DOMAIN wf) \cup {node_id} |->
        IF n = node_id
        THEN [inputs |-> Put(IF n \in DOMAIN wf THEN wf[n].inputs ELSE EmptyDict, field, value)]
        ELSE wf[n]]

\* if node_id in workflow: workflow[node_id]["inputs"][field] = value
SetInput(wf, node_id, field, value) ==
    IF node_id \in DOMAIN wf
    THEN [wf EXCEPT ![node_id] = [inputs |-> Put(wf[node_id].inputs, field, value)]]
    ELSE wf

\* the guarded writes of a binder, applied in the order of the code
RECURSIVE ApplyBindings(_, _)
ApplyBindings(wf, bindings) ==
    IF bindings = <<>> THEN wf
    ELSE ApplyBindings(SetInput(wf, bindings[1][1], bindings[1][2], bindings[1][3]),
                       Tail(bindings))

\* variant: the binder also writes the requested width into the image node
modify_workflow_generated_audio_sized(wf, p, rnd) ==
    LET seed == resolve_seed(p, rnd)
    IN  ApplyBindings(wf,
          << <<"98", "image", "input_image.png">>,
             <<"98", "width", p.width>>,
             <<"92:3", "text", p.prompt>>,
             <<"92:4", "text", p.negative_prompt>>,
             <<"92:11", "noise_seed", seed>>,
             <<"92:67", "noise_seed", seed>>,
             <<"92:62", "value", p.frame_count>>,
             <<"92:9", "steps", p.steps>>,
             <<"92:47", "cfg", p.cfg>>,
             <<"92:22", "frame_rate", p.fps>>,
             <<"92:51", "frame_rate", p.fps>>,
             <<"92:97", "fps", p.fps>>,
             <<"92:99", "img_compression", p.img_compression>>,
             <<"92:107", "strength", p.i2v_strength_first>>,
             <<"92:108", "strength", p.i2v_strength_second>> >>)

\* lines 195-230: the seed, then the guarded writes
modify_workflow_generated_audio(wf, p, rnd) ==
    LET seed == resolve_seed(p, rnd)
    IN  ApplyBindings(wf,
          << <<"98", "image", "input_image.png">>,
             <<"92:3", "text", p.prompt>>,
             <<"92:4", "text", p.negative_prompt>>,
             <<"92:11", "noise_seed", seed>>,
             <<"92:67", "noise_seed", seed>>,
             <<"92:62", "value", p.frame_count>>,
             <<"92:9", "steps", p.steps>>,
             <<"92:47", "cfg", p.cfg>>,
             <<"92:22", "frame_rate", p.fps>>,
             <<"92:51", "frame_rate", p.fps>>,
             <<"92:97", "fps", p.fps>>,
             <<"92:99", "img_compression", p.img_compression>>,
             <<"92:107", "strength", p.i2v_strength_first>>,
             <<"92:108", "strength", p.i2v_strength_second>> >>)

\* frame_count = int(audio_duration * fps) + 1, the duration in tenths of a second
audio_frame_count(duration, fps) == IntOfTenths(duration * fps) + 1

\* the custom-audio binder computes frame_count (line 241) and only logs it
modify_workflow_custom_audio(wf, p, duration, rnd) ==
    LET seed == resolve_seed(p, rnd)
        fps == p.fps
        frame_count == audio_frame_count(duration, fps)
    IN  ApplyBindings(wf,
          << <<"98", "image", "input_image.png">>,
             <<"92:3", "text", p.prompt>>,
             <<"92:4", "text", p.negative_prompt>>,
             <<"92:11", "noise_seed", seed>>,
             <<"92:67", "noise_seed", seed>>,
             <<"92:9", "steps", p.steps>>,
             <<"92:47", "cfg", p.cfg>>,
             <<"92:114", "audio", "input_audio.mp3">>,
             <<"92:115", "value", fps * 10>>,
             <<"92:97", "fps", fps>>,
             <<"92:99", "img_compression", p.img_compression>>,
             <<"92:107", "strength", p.i2v_strength_first>>,
             <<"92:108", "strength", p.i2v_strength_second>> >>)

\* handler() lines 409-415: load the template of the mode and bind it
handler_load_bind ==
    /\ pc = "load"
    /\ \E store \in TemplateStores, rnd \in RandomSeeds :
        LET custom == HasCustomAudio(JobInput(job))
            name == IF custom THEN "custom_audio" ELSE "generated_audio"
            loaded == load_workflow(name, store)
        IN  /\ loaded_from' = Some(load_workflow_path(name, store))
            /\ template_seen' = Some([name |-> name,
                                      named |-> store[WorkflowPathOf(name)].exists,
                                      fallback |-> store["/workflow.json"].exists])
            /\ calls' = IF loaded.raised THEN Append(calls, "load_workflow")
                        ELSE calls \o <<"load_workflow", "modify_workflow_" \o name>>
            /\ IF loaded.raised
               THEN /\ HandlerExcept(loaded.exc)
                    /\ UNCHANGED <<workflow, params>>
               ELSE /\ workflow' = IF custom
                                   THEN modify_workflow_custom_audio(loaded.value, params,
                                                                     audio_duration[1], rnd)
                                   ELSE modify_workflow_generated_audio(loaded.value, params, rnd)
                    /\ params' = params_after_seed(params, rnd)
                    /\ pc' = "submit"
                    /\ UNCHANGED <<result, outcome>>
    /\ UNCHANGED <<job, mode, elapsed, last_progress, audio_duration, prompt_id,
                   outputs, outfiles, video, requests, posts, posted, progress_log, poll_end,
                   ready, error_reported, outputs_seen, ticks_seen>>

----------------------------------------------------------------------------
(* queue_prompt() *)

\* what POST /prompt can do: fail in transport or with an HTTP error status, answer
\* with a JSON object holding a prompt_id, or with one that holds none
SubmitResponses ==
    {[ok |-> FALSE, body |-> EmptyDict],
     [ok |-> TRUE, body |-> [k \in {"prompt_id"} |-> Some("p1")]],
     [ok |-> TRUE, body |-> [k \in {"error"} |-> Some("invalid prompt")]]}

\* prompt_id = result.get("prompt_id"); return prompt_id
queue_prompt_result(body) == Get(body, "prompt_id", None)

\* handler() line 417: prompt_id = queue_prompt(workflow)
queue_prompt ==
    /\ pc = "submit"
    /\ requests' = requests \cup {PostPrompt}
    /\ posts' = posts + 1
    /\ posted' = Some(workflow)
    /\ \E resp \in SubmitResponses :
        IF ~resp.ok
        THEN /\ HandlerExcept(Exc("URLError", "<urlopen error>"))
             /\ calls' = Append(calls, "queue_prompt")
             /\ UNCHANGED <<prompt_id, elapsed, last_progress>>
        ELSE /\ prompt_id' = queue_prompt_result(resp.body)
             /\ pc' = "poll"
             /\ calls' = calls \o <<"queue_prompt", "wait_for_completion">>
             /\ elapsed' = 0
             /\ last_progress' = 0
             /\ UNCHANGED <<result, outcome>>
    /\ UNCHANGED <<job, params, mode, audio_duration, loaded_from, workflow,
                   outputs, outfiles, video, progress_log, poll_end, ready, error_reported,
                   template_seen, outputs_seen, ticks_seen>>

----------------------------------------------------------------------------
(* The files under /comfyui/output and the outputs mappings of the engine *)

\* a file path below /comfyui/output: sub-directory ("" for the directory itself), name
Path(sub, name) == [sub |-> sub, name |-> name]

FileA == Path("", "a.mp4")
FileB == Path("sub", "b.gif")
FileC == Path("", "c.png")
FileE == Path("", "e.mp4")
FileUniverse == {FileA, FileB, FileC, FileE}

\* the bytes each file of the universe holds when it exists; e.mp4 is zero-length
FileBytes(path) ==
    CASE path = FileA -> "AAA" [] path = FileB -> "BBB" [] path = FileC -> "CCC"
      [] OTHER -> ""

\* base64.b64encode(bytes).decode("utf-8")
b64encode(bytes) ==
    CASE bytes = "AAA" -> "QUFB" [] bytes = "BBB" -> "QkJC" [] bytes = "CCC" -> "Q0ND"
      [] OTHER -> ""

\* str.endswith(('.mp4', '.webm', '.gif', '.avi', '.mov')) on the names of the universe
HasMediaExtension(name) == name \in {"a.mp4", "b.gif", "e.mp4"}

\* the names of the universe in ascending string order
SortedNames == <<"a.mp4", "b.gif", "c.png", "e.mp4">>
NameRank(name) == CHOOSE i \in 1 .. Len(SortedNames) : SortedNames[i] = name

\* one entry of an output list: a dict (filename / subfolder keys optional), a bare
\* string, or something else
DictItem(filename, subfolder) == [type |-> "dict", filename |-> filename, subfolder |-> subfolder]
StrItem(s) == [type |-> "str", filename |-> Some(s), subfolder |-> None]
OtherItem == [type |-> "int", filename |-> None, subfolder |-> None]

\* the value under an output key: a list of items, or a single item that is no list
\* (held in v as its only element)
ListValue(items) == [islist |-> TRUE, v |-> items]
ScalarValue(item) == [islist |-> FALSE, v |-> <<item>>]

ValueA == ListValue(<<OtherItem, DictItem(None, None), DictItem(Some("a.mp4"), Some(""))>>)
ValueB == ListValue(<<DictItem(Some("b.gif"), Some("sub"))>>)
ValueC == ScalarValue(StrItem("c.png"))
ItemValues == {ValueA, ValueB, ValueC}

\* the keys get_output_video looks for, in the order of its loop
OUTPUT_KEYS == <<"gifs", "videos", "video", "images", "files">>

\* if not isinstance(items, list): items = [items]
ItemsOf(value) == IF value.islist THEN value.v ELSE <<value.v[1]>>

\* lines 331-344: the path an item names, None when the item is skipped
ItemPath(item) ==
    IF item.type = "dict"
    THEN IF item.filename = None \/ item.filename = Some("") THEN None
         ELSE Some(Path(IF item.subfolder = None THEN "" ELSE item.subfolder[1],
                        item.filename[1]))
    ELSE IF item.type = "str"
    THEN IF item.filename = Some("") THEN None ELSE Some(Path("", item.filename[1]))
    ELSE None

RECURSIVE ItemCandidates(_)
ItemCandidates(items) ==
    IF items = <<>> THEN <<>>
    ELSE (IF ItemPath(items[1]) = None THEN <<>> ELSE <<ItemPath(items[1])[1]>>)
         \o ItemCandidates(Tail(items))

\* for key in [...]: if key in node_output: the items under it, key after key
RECURSIVE KeyCandidates(_, _)
KeyCandidates(node_output, keys) ==
    IF keys = <<>> THEN <<>>
    ELSE (IF keys[1] \in DOMAIN node_output
          THEN ItemCandidates(ItemsOf(node_output[keys[1]])) ELSE <<>>)
         \o KeyCandidates(node_output, Tail(keys))

\* for node_id, node_output in outputs.items(): the candidate paths in loop order
\* (outs is the sequence of the node outputs in the mapping's iteration order)
RECURSIVE Candidates(_)
Candidates(outs) ==
    IF outs = <<>> THEN <<>>
    ELSE KeyCandidates(outs[1], OUTPUT_KEYS) \o Candidates(Tail(outs))

\* the first candidate for which os.path.exists holds
RECURSIVE FirstExisting(_, _)
FirstExisting(paths, files) ==
    IF paths = <<>> THEN None
    ELSE IF paths[1] \in files THEN Some(paths[1])
    ELSE FirstExisting(Tail(paths), files)

\* for file in sorted(files, reverse=True): the first with a media extension
ScanDirectory(dir, files) ==
    LET media == {f \in files : f.sub = dir /\ HasMediaExtension(f.name)}
    IN  IF media = {} THEN None
        ELSE Some(CHOOSE f \in media : \A g \in media : NameRank(g.name) <= NameRank(f.name))

\* for root, dirs, files in os.walk(output_dir): directory after directory
RECURSIVE ScanTree(_, _)
ScanTree(walk, files) ==
    IF walk = <<>> THEN None
    ELSE IF ScanDirectory(walk[1], files) # None THEN ScanDirectory(walk[1], files)
    ELSE ScanTree(Tail(walk), files)

\* the order in which os.walk yields the directories of the universe (top-down)
WalkOrders == {<<"", "sub">>}

\* get_output_video(): None, or Some(the base64 text of the file found)
get_output_video(outs, files, walk) ==
    LET named == FirstExisting(Candidates(outs), files)
        found == IF named # None THEN named ELSE ScanTree(walk, files)
    IN  IF found = None THEN None ELSE Some(b64encode(FileBytes(found[1])))

\* the outputs mappings and output directories explored by the pipeline
PipelineOutputs == { << [k \in {"videos"} |-> ValueA] >>,
                     << [k \in {"images"} |-> ValueC], [k \in {"gifs"} |-> ValueB] >> }
PipelineFiles == { {}, {FileA}, {FileA, FileB, FileC}, {FileE} }

----------------------------------------------------------------------------
(* wait_for_completion() *)

\* the status objects and history entries the engine can answer with
Messages == << "execution_error", "boom" >>
Statuses ==
    { MkDict(r) : r \in [status_str : Opt({"success", "error"}),
                         messages   : Opt({<<>>, <<Messages>>})] }
HistoryEntries ==
    { MkDict(r) : r \in [outputs : Opt({<<>>} \cup PipelineOutputs),
                         status  : Opt(Statuses)] }

\* what one GET /history/{prompt_id} can do: fail in transport, answer with a body
\* that is not JSON, or answer with a mapping from handle to entry
HistoryResponses ==
    {[kind |-> "URLError", body |-> EmptyDict], [kind |-> "JSONDecodeError", body |-> EmptyDict],
     [kind |-> "json", body |-> EmptyDict]}
    \cup {[kind |-> "json", body |-> [h \in {"p1"} |-> e]] : e \in HistoryEntries}

\* how long the request takes, in seconds
PollLatencies == {0, 1}

\* str(error_msg) inside the RuntimeError message
WorkflowErrorText(error_msg) ==
    IF error_msg = <<"Unknown error">> THEN "Workflow error: ['Unknown error']"
    ELSE "Workflow error: ['execution_error', 'boom']"

\* the response carries status_str == "error" for the handle
reports_error(pid, history) ==
    /\ pid # None
    /\ pid[1] \in DOMAIN history
    /\ Get(Get(history[pid[1]], "status", EmptyDict), "status_str", "") = "error"

\* variant: outputs are returned only under status_str "success"
history_verdict_success_only(pid, history) ==
    IF pid = None \/ pid[1] \notin DOMAIN history THEN [kind |-> "waiting"]
    ELSE LET entry == history[pid[1]]
             outs == Get(entry, "outputs", <<>>)
             status == Get(entry, "status", EmptyDict)
         IN  IF Get(status, "status_str", "") = "error"
             THEN LET messages == Get(status, "messages", << <<"Unknown error">> >>)
                  IN  IF messages = <<>>
                      THEN [kind |-> "IndexError"]
                      ELSE [kind |-> "RuntimeError", msg |-> WorkflowErrorText(messages[1])]
             ELSE IF outs # <<>> /\ Get(status, "status_str", "") = "success"
             THEN [kind |-> "outputs", outputs |-> outs]
             ELSE [kind |-> "waiting"]

\* lines 297-307 on a parsed history: what the try block does with it
history_verdict(pid, history) ==
    IF pid = None \/ pid[1] \notin DOMAIN history THEN [kind |-> "waiting"]
    ELSE LET entry == history[pid[1]]
             outs == Get(entry, "outputs", <<>>)
             status == Get(entry, "status", EmptyDict)
         IN  IF Get(status, "status_str", "") = "error"
             THEN LET messages == Get(status, "messages", << <<"Unknown error">> >>)
                  IN  IF messages = <<>>
                      THEN [kind |-> "IndexError"]   \* [][0], caught by except Exception
                      ELSE [kind |-> "RuntimeError", msg |-> WorkflowErrorText(messages[1])]
             ELSE IF outs # <<>> THEN [kind |-> "outputs", outputs |-> outs]
             ELSE [kind |-> "waiting"]

\* variant: a line is logged whenever ten seconds have passed since last_progress,
\* naming the boundary passed, and last_progress is never advanced
poll_progress_since_last(current_time, last) ==
    IF current_time - last >= PROGRESS_EVERY
    THEN [log |-> Some((current_time \div PROGRESS_EVERY) * PROGRESS_EVERY), last |-> last]
    ELSE [log |-> None, last |-> last]

\* lines 308-311, reached when the query raised nothing and returned nothing: the
\* progress line and last_progress, as [log, last]
poll_progress(current_time, last) ==
    IF current_time % PROGRESS_EVERY = 0 /\ current_time # last
    THEN [log |-> Some(current_time), last |-> current_time]
    ELSE [log |-> None, last |-> last]

\* variant: a failed request is raised out of the loop instead of being retried
poll_except_raising_URLError(kind) ==
    IF kind \in {"RuntimeError", "URLError"} THEN "raise" ELSE "drop"

\* the except clauses of lines 312-317: URLError and any other Exception are logged
\* and dropped, RuntimeError is raised again
poll_except(kind) == IF kind = "RuntimeError" THEN "raise" ELSE "drop"

\* the response holds non-empty outputs for the handle
holds_outputs(pid, history) ==
    /\ pid # None
    /\ pid[1] \in DOMAIN history
    /\ Get(history[pid[1]], "outputs", <<>>) # <<>>

\* one iteration of the while loop of wait_for_completion
wait_for_completion_tick ==
    /\ pc = "poll"
    /\ elapsed < params.timeout
    /\ requests' = requests \cup {GetHistory(prompt_id)}
    /\ \E resp \in HistoryResponses, latency \in PollLatencies :
        LET verdict == IF resp.kind = "json" THEN history_verdict(prompt_id, resp.body)
                       ELSE [kind |-> resp.kind]
            current_time == elapsed + latency
            progress == poll_progress(current_time, last_progress)
        IN  /\ error_reported' = (error_reported \/
                                  (resp.kind = "json" /\ reports_error(prompt_id, resp.body)))
            /\ ticks_seen' = IF resp.kind = "json" THEN [ticks_seen EXCEPT !.answered = TRUE]
                              ELSE [ticks_seen EXCEPT !.transient = @ + 1]
            /\ outputs_seen' =
                  IF resp.kind = "json" /\ holds_outputs(prompt_id, resp.body)
                  THEN Some([outputs |-> resp.body[prompt_id[1]].outputs,
                             error |-> reports_error(prompt_id, resp.body)])
                  ELSE outputs_seen
            /\ CASE verdict.kind = "outputs" ->
                      /\ outputs' = verdict.outputs
                      /\ poll_end' = "outputs"
                      /\ pc' = "resolve"
                      /\ elapsed' = 0
                      /\ UNCHANGED <<result, outcome, last_progress, progress_log>>
                 [] verdict.kind = "waiting" ->
                      /\ last_progress' = progress.last
                      /\ progress_log' = IF progress.log = None THEN progress_log
                                         ELSE Append(progress_log, progress.log[1])
                      /\ elapsed' = elapsed + latency + POLL_SLEEP
                      /\ UNCHANGED <<pc, result, outcome, outputs, poll_end>>
                 [] OTHER ->   \* an exception left the try block
                      IF poll_except(verdict.kind) = "raise"
                      THEN /\ HandlerExcept(Exc(verdict.kind, Get(verdict, "msg", "")))
                           /\ poll_end' = "error"
                           /\ elapsed' = 0
                           /\ UNCHANGED <<outputs, last_progress, progress_log>>
                      ELSE /\ elapsed' = elapsed + latency + POLL_SLEEP
                           /\ UNCHANGED <<pc, result, outcome, outputs, poll_end,
                                          last_progress, progress_log>>
    /\ UNCHANGED <<job, params, mode, audio_duration, loaded_from, workflow, prompt_id,
                   outfiles, video, posts, posted, ready, calls, template_seen>>

\* the loop condition fails: raise TimeoutError
wait_for_completion_timeout ==
    /\ pc = "poll"
    /\ ~(elapsed < params.timeout)
    /\ HandlerExcept(Exc("TimeoutError", "Generation timed out"))
    /\ poll_end' = "timeout"
    /\ elapsed' = 0
    /\ UNCHANGED <<job, params, mode, last_progress, audio_duration, loaded_from, workflow,
                   prompt_id, outputs, outfiles, video, requests, posts, posted, progress_log,
                   ready, error_reported, calls, template_seen, outputs_seen, ticks_seen>>

----------------------------------------------------------------------------
(* handler(): artifact resolution and the result *)

\* "if audio_duration:" - None and 0.0 are both false
Truthy(duration) == duration # None /\ duration[1] # 0

\* the success mapping of lines 428-449
success_result(video_data, p, m, duration) ==
    LET parameters(frame_count) ==
            [prompt |-> p.prompt, width |-> p.width, height |-> p.height, steps |-> p.steps,
             cfg |-> p.cfg, fps |-> p.fps, img_compression |-> p.img_compression,
             i2v_strength_first |-> p.i2v_strength_first,
             i2v_strength_second |-> p.i2v_strength_second, frame_count |-> frame_count]
    IN  IF Truthy(duration)
        THEN [video |-> video_data, seed |-> p.seed, mode |-> m,
              parameters |-> parameters(audio_frame_count(duration[1], p.fps)),
              elapsed_time |-> "t", audio_duration |-> duration[1]]
        ELSE [video |-> video_data, seed |-> p.seed, mode |-> m,
              parameters |-> parameters(p.frame_count), elapsed_time |-> "t"]

\* handler() lines 419-450: get_output_video, then the result
handler_resolve ==
    /\ pc = "resolve"
    /\ \E files \in PipelineFiles, walk \in WalkOrders :
        LET video_data == get_output_video(outputs, files, walk)
        IN  /\ outfiles' = files
            /\ video' = video_data
            /\ calls' = Append(calls, "get_output_video")
            /\ IF video_data = None \/ video_data = Some("")
               THEN Return([error |-> "No video output generated"])
               ELSE Return(success_result(video_data[1], params, mode, audio_duration))
    /\ UNCHANGED <<job, params, mode, elapsed, last_progress, audio_duration, loaded_from,
                   workflow, prompt_id, outputs, requests, posts, posted, progress_log,
                   poll_end, ready, error_reported, template_seen, outputs_seen, ticks_seen>>

----------------------------------------------------------------------------
\* handler()'s locals and the ghosts before anything ran
Fresh ==
    /\ job = EmptyDict
    /\ params = EmptyDict
    /\ mode = ""
    /\ elapsed = 0
    /\ last_progress = 0
    /\ audio_duration = None
    /\ loaded_from = None
    /\ workflow = EmptyDict
    /\ prompt_id = None
    /\ outfiles = {}
    /\ video = None
    /\ result = EmptyDict
    /\ outcome = "running"
    /\ requests = {}
    /\ posts = 0
    /\ posted = None
    /\ progress_log = <<>>
    /\ poll_end = "none"
    /\ ready = None
    /\ error_reported = FALSE
    /\ calls = <<>>
    /\ template_seen = None
    /\ outputs_seen = None
    /\ ticks_seen = [transient |-> 0, answered |-> FALSE]

\* the worker before runpod hands it a job
Init ==
    /\ pc = "idle"
    /\ outputs = <<>>
    /\ Fresh

Next ==
    \/ handler_start
    \/ wait_for_comfyui_probe
    \/ wait_for_comfyui_give_up
    \/ handler_save_inputs
    \/ handler_load_bind
    \/ queue_prompt
    \/ wait_for_completion_tick
    \/ wait_for_completion_timeout
    \/ handler_resolve

Spec == Init /\ [][Next]_vars

----------------------------------------------------------------------------
(* get_output_video() on its own: every outputs mapping and output directory *)
(* within the bounds                                                        *)

OutputKeyInputs == {"gifs", "videos", "text"}

\* node outputs holding at most two keys
NodeOutputs ==
    {EmptyDict}
    \cup {[k \in {k1} |-> v1] : k1 \in OutputKeyInputs, v1 \in ItemValues}
    \cup UNION {{[k \in {k1, k2} |-> IF k = k1 THEN v1 ELSE v2] : v1 \in ItemValues, v2 \in ItemValues}
                : <<k1, k2>> \in {<<"gifs", "videos">>, <<"gifs", "text">>, <<"videos", "text">>}}

ArtifactOutputs == UNION {[1 .. n -> NodeOutputs] : n \in 0 .. MaxNodes}

\* get_output_video is about to be called on some outputs mapping
InitArtifact ==
    /\ pc = "resolve"
    /\ outputs \in ArtifactOutputs
    /\ Fresh

\* video_data = get_output_video(outputs)
get_output_video_call ==
    /\ pc = "resolve"
    /\ \E files \in SUBSET FileUniverse, walk \in WalkOrders :
        /\ outfiles' = files
        /\ video' = get_output_video(outputs, files, walk)
    /\ pc' = "done"
    /\ calls' = Append(calls, "get_output_video")
    /\ UNCHANGED <<job, params, mode, elapsed, last_progress, audio_duration, loaded_from,
                   workflow, prompt_id, outputs, result, outcome, requests, posts, posted,
                   progress_log, poll_end, ready, error_reported, template_seen,
                   outputs_seen, ticks_seen>>

NextArtifact == get_output_video_call

SpecArtifact == InitArtifact /\ [][NextArtifact]_vars

----------------------------------------------------------------------------
(* The two binders on their own: templates holding any subset of the target *)
(* nodes within the bound                                                   *)

\* the node sets explored hold at most MaxAbsent target nodes, or lack at most MaxAbsent
BinderNodeSets ==
    {ns \in SUBSET TargetNodes :
        Cardinality(ns) <= MaxAbsent \/ Cardinality(TargetNodes \ ns) <= MaxAbsent}

\* a node of a template that neither binder writes
CheckpointNode == [n \in {"1"} |-> [inputs |-> [f \in {"ckpt_name"} |-> "<template>"]]]

BinderTemplates ==
    {TemplateGraph(ns) @@ extra : ns \in BinderNodeSets, extra \in {EmptyDict, CheckpointNode}}

\* the params dicts handed to a binder: every seed input, two frame rates
BinderParams ==
    {[BuildParams(ji) EXCEPT !.fps = fps] :
        ji \in {x \in JobInputs : Validate(x) = None /\ x.timeout = 0
                                   /\ DOMAIN x \subseteq {"image", "prompt", "seed", "timeout"}},
        fps \in {24, 25}}

\* handler() holds a loaded template and params, and is about to call a binder
InitBinder ==
    /\ pc = "bind"
    /\ workflow \in BinderTemplates
    /\ params \in BinderParams
    /\ job = EmptyDict
    /\ mode = ""
    /\ elapsed = 0
    /\ last_progress = 0
    /\ audio_duration = None
    /\ loaded_from = None
    /\ prompt_id = None
    /\ outputs = <<>>
    /\ outfiles = {}
    /\ video = None
    /\ result = EmptyDict
    /\ outcome = "running"
    /\ requests = {}
    /\ posts = 0
    /\ posted = None
    /\ progress_log = <<>>
    /\ poll_end = "none"
    /\ ready = None
    /\ error_reported = FALSE
    /\ calls = <<>>
    /\ template_seen = None
    /\ outputs_seen = None
    /\ ticks_seen = [transient |-> 0, answered |-> FALSE]

\* workflow = modify_workflow_custom_audio(workflow, params, audio_duration), or
\* workflow = modify_workflow_generated_audio(workflow, params)
modify_workflow_call ==
    /\ pc = "bind"
    /\ \E name \in {"generated_audio", "custom_audio"}, rnd \in RandomSeeds,
          d \in AudioDurations :
        /\ mode' = name
        /\ audio_duration' = IF name = "custom_audio" THEN Some(d) ELSE None
        /\ workflow' = IF name = "custom_audio"
                       THEN modify_workflow_custom_audio(workflow, params, d, rnd)
                       ELSE modify_workflow_generated_audio(workflow, params, rnd)
        /\ params' = params_after_seed(params, rnd)
        /\ calls' = Append(calls, "modify_workflow_" \o name)
    /\ pc' = "bound"
    /\ UNCHANGED <<job, elapsed, last_progress, loaded_from, prompt_id, outputs, outfiles,
                   video, result, outcome, requests, posts, posted, progress_log, poll_end,
                   ready, error_reported, template_seen, outputs_seen, ticks_seen>>

NextBinder == modify_workflow_call

SpecBinder == InitBinder /\ [][NextBinder]_vars

----------------------------------------------------------------------------
(* wait_for_completion() on its own, with timeouts long enough for progress lines *)

PollTimeouts == {2, MaxPollTimeout}

\* handler() got a handle from queue_prompt and calls wait_for_completion
InitPoll ==
    /\ pc = "poll"
    /\ prompt_id = Some("p1")
    /\ params \in {[DEFAULT_PARAMS EXCEPT !.timeout = t] : t \in PollTimeouts}
    /\ calls = <<"wait_for_completion">>
    /\ job = EmptyDict
    /\ mode = ""
    /\ elapsed = 0
    /\ last_progress = 0
    /\ audio_duration = None
    /\ loaded_from = None
    /\ workflow = EmptyDict
    /\ outputs = <<>>
    /\ outfiles = {}
    /\ video = None
    /\ result = EmptyDict
    /\ outcome = "running"
    /\ requests = {}
    /\ posts = 0
    /\ posted = None
    /\ progress_log = <<>>
    /\ poll_end = "none"
    /\ ready = None
    /\ error_reported = FALSE
    /\ template_seen = None
    /\ outputs_seen = None
    /\ ticks_seen = [transient |-> 0, answered |-> FALSE]

NextPoll ==
    \/ wait_for_completion_tick
    \/ wait_for_completion_timeout

SpecPoll == InitPoll /\ [][NextPoll]_vars

----------------------------------------------------------------------------
(* handler() from the template load on, for jobs that ask for a width and a height *)

SizeInputs == {512, 1280}

\* accepted jobs in both modes, with and without a seed, a width and a height
SizeJobs ==
    { [k \in {"input"} |-> MkDict(r)] :
        r \in [image   : {Some("aW1hZ2U=")},
               prompt  : {Some("a cat")},
               audio   : Opt({"YXVkaW8="}),
               seed    : Opt({0}),
               width   : Opt(SizeInputs),
               height  : Opt(SizeInputs),
               timeout : {Some(1)}] }

\* the engine answered the probe and the inputs are saved: handler() is at line 409
\* (custom audio) or 413 (generated audio)
InitSize ==
    /\ pc = "load"
    /\ job \in SizeJobs
    /\ params = BuildParams(JobInput(job))
    /\ mode = ModeOf(JobInput(job))
    /\ audio_duration \in IF HasCustomAudio(JobInput(job))
                           THEN {Some(d) : d \in AudioDurations} ELSE {None}
    /\ calls = IF HasCustomAudio(JobInput(job))
               THEN <<"wait_for_comfyui", "save_input_image", "save_input_audio">>
               ELSE <<"wait_for_comfyui", "save_input_image">>
    /\ ready = Some(TRUE)
    /\ requests = {GetSystemStats}
    /\ elapsed = 0
    /\ last_progress = 0
    /\ loaded_from = None
    /\ workflow = EmptyDict
    /\ prompt_id = None
    /\ outputs = <<>>
    /\ outfiles = {}
    /\ video = None
    /\ result = EmptyDict
    /\ outcome = "running"
    /\ posts = 0
    /\ posted = None
    /\ progress_log = <<>>
    /\ poll_end = "none"
    /\ error_reported = FALSE
    /\ template_seen = None
    /\ outputs_seen = None
    /\ ticks_seen = [transient |-> 0, answered |-> FALSE]

NextSize ==
    \/ handler_load_bind
    \/ queue_prompt
    \/ wait_for_completion_tick
    \/ wait_for_completion_timeout
    \/ handler_resolve

SpecSize == InitSize /\ [][NextSize]_vars

----------------------------------------------------------------------------
(* Claims *)

\* floor(d * fps) + 1 for a duration d given in tenths of a second
FloorFrameCount(duration, fps) == ((duration * fps) \div 10) + 1

Succeeded == pc = "done" /\ outcome = "returned" /\ "video" \in DOMAIN result
Failed == pc = "done" /\ outcome = "returned" /\ "error" \in DOMAIN result
HistoryRequests == {r \in requests : r.path = "/history"}

\* C1: a job whose input has no "image" field ends with the error result that names
\* the field, and no request at all (readiness probe, submission, history query) has
\* been sent to the engine.
C1_MissingImage ==
    (pc # "idle" /\ "image" \notin DOMAIN JobInput(job))
        => /\ pc = "done"
           /\ outcome = "returned"
           /\ result = [error |-> "Missing required field: image"]
           /\ requests = {}
           /\ posts = 0

C1_Witness ==
    /\ pc = "done"
    /\ {"prompt", "audio", "seed"} \subseteq DOMAIN JobInput(job)
    /\ "image" \notin DOMAIN JobInput(job)
    /\ result = [error |-> "Missing required field: image"]

\* C2: once a history response has reported status_str "error" for the job handle,
\* whatever its messages field looks like, wait_for_completion has ended with the
\* execution-error failure (it is not polling any more).
C2_ErrorEndsPoll ==
    error_reported => (poll_end = "error" /\ pc = "done" /\ Failed)

\* C3: when wait_for_comfyui() returned False, handler has returned the error
\* "ComfyUI server not available", only readiness probes were sent, and neither a
\* POST /prompt nor a history query was issued.
C3_EngineUnavailable ==
    (ready = Some(FALSE))
        => /\ pc = "done"
           /\ outcome = "returned"
           /\ result = [error |-> "ComfyUI server not available"]
           /\ requests = {GetSystemStats}
           /\ posts = 0
           /\ posted = None

C3_Witness ==
    /\ ready = Some(FALSE)
    /\ pc = "done"
    /\ result = [error |-> "ComfyUI server not available"]

\* C4: no exception leaves handler: it never ends in "raised", every run that has
\* not returned can still take a step, and what it returns is the success mapping or
\* a mapping with an "error" entry.
C4_AlwaysReturnsMapping ==
    /\ outcome # "raised"
    /\ pc # "done" => (outcome = "running" /\ ENABLED Next)
    /\ pc = "done" =>
          /\ outcome = "returned"
          /\ \/ "error" \in DOMAIN result
             \/ {"video", "seed", "mode", "parameters", "elapsed_time"} \subseteq DOMAIN result

C4_Witness ==
    /\ poll_end = "timeout"
    /\ Failed
    /\ result.traceback = "TimeoutError"

\* C5: every error result handler returns holds an elapsed_time entry.
C5_ErrorHasElapsedTime ==
    Failed => "elapsed_time" \in DOMAIN result

\* C6: in both modes the submitted graph carries the resolved seed s on node 92:11
\* and s + 1 on node 92:67, when the template has both nodes.
C6_StageTwoSeedPlusOne ==
    (posted # None /\ {"92:11", "92:67"} \subseteq DOMAIN posted[1])
        => /\ posted[1]["92:11"].inputs["noise_seed"] = params.seed[1]
           /\ posted[1]["92:67"].inputs["noise_seed"] = params.seed[1] + 1

\* C7: from the binder on the seed is fixed: an explicit seed other than -1
\* (0 included) is kept, an absent seed or -1 is replaced by a generated non-negative
\* one, the noise_seed fields of the submitted graph hold it, and the success result
\* echoes the same value.
SeedNodes == {"92:11", "92:67"}
C7_SeedStable ==
    (pc \in {"submit", "poll", "resolve"} \/ posted # None) =>
        LET job_input == JobInput(job)
            graph == IF posted # None THEN posted[1] ELSE workflow
        IN  /\ params.seed # None
            /\ ("seed" \in DOMAIN job_input /\ job_input["seed"] # -1)
                   => params.seed = Some(job_input["seed"])
            /\ ("seed" \notin DOMAIN job_input \/ Get(job_input, "seed", 0) = -1)
                   => params.seed[1] \in 0 .. RANDOM_SEED_MAX
            /\ \A n \in SeedNodes \cap DOMAIN graph :
                   graph[n].inputs["noise_seed"] = params.seed[1]
            /\ Succeeded => result.seed = params.seed

C7_Witness ==
    /\ Succeeded
    /\ Get(JobInput(job), "seed", -1) = 0
    /\ result.seed = Some(0)
    /\ SeedNodes \subseteq DOMAIN posted[1]
    /\ posted[1]["92:11"].inputs["noise_seed"] = 0

\* C8: in custom-audio mode the frame count of the success result's parameters is
\* floor(d * fps) + 1 for the audio duration d, d = 0 included.
C8_FrameCountFromAudio ==
    (Succeeded /\ mode = "custom_audio")
        => result.parameters.frame_count = FloorFrameCount(audio_duration[1], params.fps)

\* the paths named under one key, over all nodes of the mapping
RECURSIVE EntriesUnder(_, _)
EntriesUnder(outs, key) ==
    IF outs = <<>> THEN {}
    ELSE LET c == KeyCandidates(outs[1], <<key>>)
         IN  {c[i] : i \in 1 .. Len(c)} \cup EntriesUnder(Tail(outs), key)

PrimaryKey == OUTPUT_KEYS[1]
PrimaryEntries == EntriesUnder(outputs, PrimaryKey) \cap outfiles
AlternateEntries ==
    UNION {EntriesUnder(outputs, OUTPUT_KEYS[i]) : i \in 2 .. Len(OUTPUT_KEYS)} \cap outfiles

\* C9: when the outputs hold an entry under the primary key and one under a
\* lower-priority key, both naming existing files, get_output_video returns the file
\* of a primary-key entry, whichever nodes hold the two entries and in whatever order.
C9_PrimaryKeyWins ==
    (pc = "done" /\ PrimaryEntries # {} /\ AlternateEntries # {})
        => video \in {Some(b64encode(FileBytes(f))) : f \in PrimaryEntries}

\* C10: a POST /prompt answer without prompt_id ends the run at submission: the
\* poller is never entered without a handle and no history query is sent for one.
C10_NoHandleNoPoll ==
    /\ pc \in {"poll", "resolve"} => prompt_id # None
    /\ \A r \in HistoryRequests : r.arg # None

\* the nodes the binder of a mode writes, and the value it resolves for each of them
\* from the params it leaves behind
BinderTargets(m) ==
    IF m = "custom_audio" THEN TargetNodes \ {"92:62", "92:22", "92:51"}
    ELSE TargetNodes \ {"92:114", "92:115"}
Resolved(n, p) ==
    CASE n = "98" -> "input_image.png"
      [] n = "92:3" -> p.prompt
      [] n = "92:4" -> p.negative_prompt
      [] n \in {"92:11", "92:67"} -> p.seed[1]
      [] n = "92:62" -> p.frame_count
      [] n = "92:9" -> p.steps
      [] n = "92:47" -> p.cfg
      [] n \in {"92:22", "92:51", "92:97"} -> p.fps
      [] n = "92:99" -> p.img_compression
      [] n = "92:107" -> p.i2v_strength_first
      [] n = "92:108" -> p.i2v_strength_second
      [] n = "92:114" -> "input_audio.mp3"
      [] n = "92:115" -> p.fps * 10

\* C11: whatever subset of its target nodes the template holds, a binder returns
\* without raising, leaves the template's node set as it was (no absent node is
\* created), writes the resolved value into the field of every target node that is
\* present, and changes nothing else.
C11_BinderTolerance ==
    [][pc = "bind" /\ pc' = "bound" =>
        /\ outcome' = "running"
        /\ DOMAIN workflow' = DOMAIN workflow
        /\ \A n \in DOMAIN workflow :
            IF n \in BinderTargets(mode')
            THEN /\ DOMAIN workflow'[n].inputs = DOMAIN workflow[n].inputs
                 /\ workflow'[n].inputs[TargetField[n]] = Resolved(n, params')
                 /\ \A f \in DOMAIN workflow[n].inputs \ {TargetField[n]} :
                        workflow'[n].inputs[f] = workflow[n].inputs[f]
            ELSE workflow'[n] = workflow[n]]_vars

\* a binder ran on a template that holds some of its target nodes and lacks others
C11_Witness ==
    /\ pc = "bound"
    /\ \E n \in BinderTargets(mode) : n \notin DOMAIN workflow
    /\ \E n \in BinderTargets(mode) \cap DOMAIN workflow :
          workflow[n].inputs[TargetField[n]] = Resolved(n, params)

\* the mode the request selects, and the other one
SelectedMode ==
    IF "audio" \in DOMAIN JobInput(job) /\ JobInput(job)["audio"] # ""
    THEN "custom_audio" ELSE "generated_audio"
OtherMode == IF SelectedMode = "custom_audio" THEN "generated_audio" ELSE "custom_audio"
Called(function) == \E i \in DOMAIN calls : calls[i] = function

\* C12: once a request is validated, the mode is custom_audio exactly when the input
\* holds a non-empty audio value; load_workflow is asked for that mode's template and
\* never opens the other mode's file, only that mode's binder is applied (and the
\* audio is saved only in custom_audio mode), and a success result carries that mode.
C12_ModeSelection ==
    calls # <<>> =>
        /\ mode = SelectedMode
        /\ template_seen # None => template_seen[1].name = SelectedMode
        /\ loaded_from # None => loaded_from[1] # WorkflowPathOf(OtherMode)
        /\ ~Called("modify_workflow_" \o OtherMode)
        /\ Called("save_input_audio") => SelectedMode = "custom_audio"
        /\ pc \in {"submit", "poll", "resolve"} => Called("modify_workflow_" \o SelectedMode)
        /\ Succeeded => /\ result.mode = SelectedMode
                        /\ Called("modify_workflow_" \o SelectedMode)

\* a run whose input holds an audio value succeeded in custom_audio mode
C12_Witness ==
    /\ Succeeded
    /\ result.mode = "custom_audio"
    /\ template_seen[1].name = "custom_audio"
    /\ Called("modify_workflow_custom_audio")

\* C13: wait_for_completion ends in exactly one of three ways and sends no history
\* query after that; it ends by timeout only when no earlier tick was answered with
\* outputs or with an execution error for the handle.
C13_PollOutcome ==
    /\ poll_end \in {"none", "outputs", "error", "timeout"}
    /\ poll_end # "none" => pc \in {"resolve", "done"}
    /\ poll_end = "timeout" => ~error_reported /\ outputs_seen = None

\* C14: a history query that fails in transport, or whose body is not JSON, leaves
\* the poll waiting (it is retried on the next pass of the loop); while no query has
\* been answered with JSON the poll has not ended, or has ended by timeout; and
\* however many such failures came first, a tick answered with outputs (and no error
\* status) ends the poll with exactly those outputs.
C14_TransientRetried ==
    /\ [][ticks_seen'.transient > ticks_seen.transient =>
            pc' = "poll" /\ poll_end' = "none" /\ outcome' = "running"]_vars
    /\ [](~ticks_seen.answered => poll_end \in {"none", "timeout"})
    /\ []((ticks_seen.transient > 0 /\ outputs_seen # None /\ ~outputs_seen[1].error) =>
            (poll_end = "outputs" /\ pc = "resolve" /\ outputs = outputs_seen[1].outputs))

\* three queries failed, then one was answered with outputs and the poll completed
C14_Witness ==
    /\ ticks_seen.transient >= 3
    /\ poll_end = "outputs"
    /\ outputs # <<>>

\* C15 as stated: whenever a history response holds non-empty outputs for the
\* handle, the poll ends on that tick with exactly those outputs.
C15_OutputsComplete ==
    outputs_seen # None =>
        /\ poll_end = "outputs"
        /\ pc = "resolve"
        /\ outputs = outputs_seen[1].outputs

\* C15, amended: whenever a history response holds non-empty outputs for the handle
\* and does not carry status_str "error", the poll ends on that tick with exactly
\* those outputs.
C15_OutputsCompleteUnlessError ==
    (outputs_seen # None /\ ~outputs_seen[1].error) =>
        /\ poll_end = "outputs"
        /\ pc = "resolve"
        /\ outputs = outputs_seen[1].outputs

\* a response with outputs and no error status ended the poll
C15_Witness ==
    /\ outputs_seen # None
    /\ ~outputs_seen[1].error
    /\ poll_end = "outputs"
    /\ outputs = outputs_seen[1].outputs

\* the calls of a run that goes through every stage, in the order of handler()
StageCalls ==
    <<"wait_for_comfyui", "save_input_image">>
    \o (IF SelectedMode = "custom_audio" THEN <<"save_input_audio">> ELSE <<>>)
    \o <<"load_workflow", "modify_workflow_" \o SelectedMode, "queue_prompt",
         "wait_for_completion", "get_output_video">>

\* C16: the stages of a run occur only in the order validation, readiness probe,
\* input save, template load and binding, submission, polling, artifact resolution;
\* nothing is called or requested before validation passed, POST /prompt is sent only
\* after a successful probe, GET /history only after POST /prompt returned, artifact
\* resolution only after the poll ended with outputs; and a run that has ended, by
\* failure or success, takes no further step.
C16_StageOrder ==
    /\ Len(calls) <= Len(StageCalls)
    /\ calls = SubSeq(StageCalls, 1, Len(calls))
    /\ (calls # <<>> \/ requests # {}) => Validate(JobInput(job)) = None
    /\ Called("save_input_image") => ready = Some(TRUE)
    /\ PostPrompt \in requests => ready = Some(TRUE) /\ Called("modify_workflow_" \o SelectedMode)
    /\ HistoryRequests # {} => posts = 1 /\ Called("wait_for_completion") /\ pc # "submit"
    /\ Called("get_output_video") => poll_end = "outputs"
    /\ (outfiles # {} \/ video # None) => Called("get_output_video")
    /\ poll_end \in {"error", "timeout"} => pc = "done" /\ ~Called("get_output_video")
    /\ ready = Some(FALSE) => pc = "done" /\ calls = <<"wait_for_comfyui">> /\ posts = 0
    /\ pc = "done" => ~ENABLED Next

\* a custom-audio run went through every stage and returned the video
C16_Witness ==
    /\ Succeeded
    /\ calls = StageCalls
    /\ Len(calls) = 8
    /\ {GetSystemStats, PostPrompt} \subseteq requests
    /\ HistoryRequests # {}

\* C17: a run sends at most one POST /prompt, so it holds at most one handle; every
\* GET /history request it sends carries the value queue_prompt returned for that
\* one submission.
C17_OneHandle ==
    /\ posts <= 1
    /\ prompt_id # None => posts = 1
    /\ \A r \in HistoryRequests : posts = 1 /\ r.arg = prompt_id
    /\ Cardinality(HistoryRequests) <= 1

\* the poll of a run queried the history more than once, under the handle "p1"
C17_Witness ==
    /\ posts = 1
    /\ prompt_id = Some("p1")
    /\ HistoryRequests = {GetHistory(prompt_id)}
    /\ ticks_seen.transient >= 1
    /\ ticks_seen.answered

\* the run ended in load_workflow, with the error of a file that is missing or not JSON
TemplateLoadFailed ==
    /\ Failed
    /\ calls # <<>> /\ calls[Len(calls)] = "load_workflow"
    /\ "traceback" \in DOMAIN result
    /\ result.traceback \in {"FileNotFoundError", "JSONDecodeError"}

\* C18 as stated: when the file of the mode's template is absent the run fails with a
\* template-load error and nothing is submitted, and a graph is only ever loaded from
\* the file named by the mode.
C18_AbsentTemplateFails ==
    template_seen # None =>
        /\ ~template_seen[1].named => TemplateLoadFailed /\ posts = 0
        /\ loaded_from = Some(WorkflowPathOf(SelectedMode))

\* C18, amended: when the file of the mode's template is absent load_workflow opens
\* /workflow.json instead; the run fails with a template-load error when that file is
\* absent too, and whenever loading fails nothing is submitted; a graph is loaded from
\* the mode's file when it exists and never from the other mode's file.
C18_AbsentTemplateFallsBack ==
    template_seen # None =>
        /\ template_seen[1].name = SelectedMode
        /\ template_seen[1].named => loaded_from = Some(WorkflowPathOf(SelectedMode))
        /\ ~template_seen[1].named => loaded_from = Some("/workflow.json")
        /\ (~template_seen[1].named /\ ~template_seen[1].fallback) =>
                TemplateLoadFailed /\ result.traceback = "FileNotFoundError"
        /\ TemplateLoadFailed => posts = 0 /\ requests \subseteq {GetSystemStats}
                                 /\ workflow = EmptyDict
        /\ loaded_from # Some(WorkflowPathOf(OtherMode))

\* the mode's file was absent, the graph came from /workflow.json and was submitted
C18_Witness ==
    /\ template_seen # None
    /\ ~template_seen[1].named
    /\ loaded_from = Some("/workflow.json")
    /\ posts = 1
    /\ posted # None /\ posted[1] # EmptyDict

\* the orders in which the files of the output tree can have been produced: each
\* file's modification time, no two alike
ProductionTimes(files) ==
    {t \in [files -> 1 .. Cardinality(files)] : \A f, g \in files : t[f] = t[g] => f = g}
MediaFiles == {f \in outfiles : HasMediaExtension(f.name)}
Newest(files, t) == CHOOSE f \in files : \A g \in files : t[g] <= t[f]
FallbackScanRan ==
    pc = "done" /\ Called("get_output_video")
    /\ FirstExisting(Candidates(outputs), outfiles) = None

\* C19: when no candidate named in the outputs exists, get_output_video returns none
\* only if the output tree holds no media file, and otherwise returns the media file
\* of the tree that was produced last, whatever the files' names and directories.
C19_ScanReturnsNewest ==
    FallbackScanRan =>
        /\ video = None <=> MediaFiles = {}
        /\ \A t \in ProductionTimes(outfiles) :
              MediaFiles # {} => video = Some(b64encode(FileBytes(Newest(MediaFiles, t))))

\* C20: over a whole poll, whatever mix of answered and failed queries it sees, each
\* progress line names a whole number of seconds divisible by 10, and no boundary is
\* named by two lines.
C20_ProgressOncePerBoundary ==
    \A i, j \in DOMAIN progress_log :
        /\ progress_log[i] % PROGRESS_EVERY = 0
        /\ progress_log[i] = progress_log[j] => i = j

\* a poll that also saw failed queries logged the boundaries 10 and 20, once each
C20_Witness ==
    /\ progress_log = <<10, 20>>
    /\ ticks_seen.transient >= 1

\* a request equal to job_input but for its width and height (None: key absent)
Resized(job_input, w, h) ==
    [k \in (DOMAIN job_input \ {"width", "height"})
            \cup (IF w = None THEN {} ELSE {"width"})
            \cup (IF h = None THEN {} ELSE {"height"}) |->
        IF k = "width" THEN w[1] ELSE IF k = "height" THEN h[1] ELSE job_input[k]]

\* the graph handler() binds for a request, given the template this run loaded (the
\* posted graph's nodes with the template's values), the audio duration this run
\* measured and the seed this run resolved
GraphBoundFor(job_input) ==
    LET template == TemplateGraph(DOMAIN posted[1])
        p == BuildParams(job_input)
    IN  IF HasCustomAudio(job_input)
        THEN modify_workflow_custom_audio(template, p, audio_duration[1], params.seed[1])
        ELSE modify_workflow_generated_audio(template, p, params.seed[1])

\* C21: the graph posted to /prompt is the graph bound for every request that differs
\* from this run's request only in width and/or height (same seed, same template,
\* same mode), so no two such requests post different graphs; and a success result
\* carries the width and height of its own request (720 where the request has none).
C21_GraphIgnoresSize ==
    /\ posted # None =>
          \A w \in Opt(SizeInputs), h \in Opt(SizeInputs) :
              GraphBoundFor(Resized(JobInput(job), w, h)) = posted[1]
    /\ Succeeded =>
          /\ result.parameters.width = Get(JobInput(job), "width", DEFAULT_PARAMS.width)
          /\ result.parameters.height = Get(JobInput(job), "height", DEFAULT_PARAMS.height)

\* a run that asked for 512 x 1280 posted a full graph and returned those sizes
C21_Witness ==
    /\ Succeeded
    /\ {"width", "height"} \subseteq DOMAIN JobInput(job)
    /\ result.parameters.width = 512 /\ result.parameters.height = 1280
    /\ posted # None /\ DOMAIN posted[1] = TargetNodes
    /\ GraphBoundFor(Resized(JobInput(job), None, Some(512))) = posted[1]

====
